---- MODULE Spec2Model ----
(***************************************************************************)
(* A model of agent_skills_sdk: the discovery walker (discovery.py), the   *)
(* manifest parser as far as discovery depends on it (parser.py), the      *)
(* client and its two caches (client.py) and the tool executor             *)
(* (executor.py).                                                          *)
(*                                                                         *)
(* Spec      the client over a disk that changes between client calls.     *)
(* SpecDisc  the discovery walker over every layout of the disk.           *)
(* SpecExec  ToolExecutor.execute over every modelled child-process        *)
(*           outcome.                                                      *)
(* SpecOps   the client with the answer of every call kept.                *)
(* SpecRes   the client's get_resource over resource files that change.    *)
(* SpecExecFair  SpecExec where a started child comes to an end.           *)
(* SpecParse the parser on one header name or one scripts/ directory.      *)
(***************************************************************************)
EXTENDS Integers, Sequences, FiniteSets, TLC

(***************************************************************************)
(* The disk.  Every search root holds the same small directory tree:       *)
(*     <root>/p   <root>/p/q   <root>/s                                    *)
(* and each directory holds either no SKILL.md, a SKILL.md that does not   *)
(* parse or validate, or a valid SKILL.md with a name and a tag list.      *)
(***************************************************************************)
Names == {"a", "b"}
TagSets == {{}, {"data"}}

\* AgentSkillsClient.skill_paths: the ordered search roots.
skill_paths == <<"r1", "r2">>
Roots == 1..Len(skill_paths)

TopDir == "."
DirNames == {"p", "p/q", "s"}

\* The sub-directories of a directory, in the order os.walk visits them.
Children(d) ==
    CASE d = TopDir -> <<"p", "s">>
      [] d = "p"    -> <<"p/q">>
      [] OTHER      -> <<>>

\* The directories strictly between the root and d, d's proper ancestors.
Ancestors(d) == IF d = "p/q" THEN {"p"} ELSE {}

NoFile == [kind |-> "none", name |-> "", tags |-> {}]
Invalid == [kind |-> "invalid", name |-> "", tags |-> {}]
ValidManifests == [kind : {"valid"}, name : Names, tags : TagSets]
Manifests == {NoFile, Invalid} \cup ValidManifests

VARIABLES
    disk,            \* [Roots \X DirNames -> Manifests]: SKILL.md per directory
    skills_cache,    \* AgentSkillsClient._skills_cache: name -> Skill or NoSkill
    metadata_cache,  \* AgentSkillsClient._metadata_cache: list of SkillMetadata
    ret,             \* what the last call returned or raised
    loaded,          \* name -> what load_skill last returned since the last reload_skills
    after_reload,    \* name -> the cache's entry when reload_skills cleared it, until the next load_skill
    call,            \* ToolExecutor.execute: the call and the child's behaviour
    result,          \* ToolExecutor.execute: what it returned or raised
    files,           \* the files under references/ and assets/ of the bundle at ResBundle
    resources,       \* name -> Skill.resources of the cached Skill of that name
    given,           \* SkillParser.parse: what it reads (a header's name, the files of scripts/)
    made             \* SkillParser.parse: what it makes of it

vars == <<disk, skills_cache, metadata_cache, ret, loaded, after_reload, call, result,
          files, resources, given, made>>

\* What the parser is given and makes, which only SpecParse follows.
parsevars == <<given, made>>

\* The resource files and the resource lists, which only get_resource reads:
\* the bundles of Spec, SpecDisc and SpecExec hold no resource files.
resvars == <<files, resources>>

(***************************************************************************)
(* models.py: Skill and SkillMetadata.  id is the object's identity: two   *)
(* Skill values are the same instance iff their ids are equal.             *)
(***************************************************************************)
(***************************************************************************)
(* Resource files.  One bundle directory, ResBundle, has files under       *)
(* references/ and assets/; a file is Missing or has a content.            *)
(***************************************************************************)
ResBundle == <<1, "p">>
ResDirs == <<"references", "assets">>
ResNames == <<"x", "y">>
ResPaths == {"references", "assets"} \X {"x", "y"}
Missing == ""
Contents == {"v1", "v2"}
NoFiles == [pth \in ResPaths |-> Missing]

(***************************************************************************)
(* Text.  A string the code looks into is a sequence of characters.  One   *)
(* character stands for each kind the code tells apart: a lowercase ASCII  *)
(* letter, an uppercase one, a digit, the hyphen, the underscore, and a    *)
(* lowercase letter outside ASCII.                                         *)
(***************************************************************************)
Chars == {"a", "A", "1", "-", "_", "é"}

\* str.islower, str.isalnum and the class [a-z0-9-] on these characters.
LowerChars == {"a", "é"}
UpperChars == {"A"}
AlnumChars == {"a", "A", "1", "é"}
PatternChars == {"a", "1", "-"}

\* The names validated: every text of at most MaxNameLen characters, and the
\* texts of LongLens letters "a".
MaxNameLen == 3
MinLength == 1
MaxLength == 64
LongLens == {MaxLength - 1, MaxLength, MaxLength + 1}
TextsOf(len) == [1..len -> Chars]
Letters(len) == [i \in 1..len |-> "a"]
CandidateNames ==
    UNION {TextsOf(len) : len \in 0..MaxNameLen} \cup {Letters(len) : len \in LongLens}

\* str.islower(): there is a cased character and no cased one is uppercase.
str_islower(v) ==
    /\ \E i \in 1..Len(v) : v[i] \in LowerChars \cup UpperChars
    /\ \A i \in 1..Len(v) : v[i] \notin UpperChars

\* The pattern ^[a-z0-9-]+$ of the field.
pattern_match(v) == Len(v) >= 1 /\ \A i \in 1..Len(v) : v[i] \in PatternChars

(***************************************************************************)
(* models.py: SkillMetadata.name.  The constraints of the Field (length    *)
(* and pattern) are tested first, then the validator validate_name; "" is  *)
(* no error.                                                               *)
(***************************************************************************)
\* The validator alone, without the constraints of the Field.
SkillMetadata_name_validator_only(v) ==
    IF ~str_islower(v) THEN "Skill name must be lowercase"
    ELSE IF ~(\A i \in 1..Len(v) : v[i] \in AlnumChars \/ v[i] = "-")
    THEN "Skill name must contain only alphanumeric characters and hyphens"
    ELSE ""

SkillMetadata_name(v) ==
    IF Len(v) < MinLength THEN "string_too_short"
    ELSE IF Len(v) > MaxLength THEN "string_too_long"
    ELSE IF ~pattern_match(v) THEN "string_pattern_mismatch"
    ELSE IF ~str_islower(v) THEN "Skill name must be lowercase"
    ELSE IF ~(\A i \in 1..Len(v) : v[i] \in AlnumChars \/ v[i] = "-")
    THEN "Skill name must contain only alphanumeric characters and hyphens"
    ELSE ""

(***************************************************************************)
(* The entries of scripts/: a stem, a suffix, and whether it is a file.    *)
(* ScriptEntries is the order iterdir gives them in.                       *)
(***************************************************************************)
ScriptEntries ==
    << [stem |-> <<"a">>, suffix |-> ".py", is_file |-> TRUE],
       [stem |-> <<"a">>, suffix |-> ".sh", is_file |-> TRUE],
       [stem |-> <<"a", "_", "1">>, suffix |-> ".py", is_file |-> TRUE],
       [stem |-> <<"a", "-", "1">>, suffix |-> ".py", is_file |-> TRUE],
       [stem |-> <<"1">>, suffix |-> ".txt", is_file |-> TRUE],
       [stem |-> <<"A">>, suffix |-> ".rb", is_file |-> FALSE] >>

ScriptSuffixes == {".py", ".sh", ".js", ".rb"}

\* str.replace('_', '-')
replace_underscores(v) == [i \in 1..Len(v) |-> IF v[i] = "_" THEN "-" ELSE v[i]]

(***************************************************************************)
(* parser.py: SkillParser._discover_tools, for the set of entries of       *)
(* scripts/ that exist (indices of ScriptEntries): one ToolDefinition per  *)
(* file with a script suffix, named by its stem with "_" replaced by "-".  *)
(***************************************************************************)
RECURSIVE ToolsFrom(_, _)
ToolsFrom(present, i) ==
    IF i > Len(ScriptEntries) THEN <<>>
    ELSE LET f == ScriptEntries[i] IN
         (IF i \in present /\ f.is_file /\ f.suffix \in ScriptSuffixes
          THEN <<[name |-> replace_underscores(f.stem), script_path |-> i]>>
          ELSE <<>>) \o ToolsFrom(present, i + 1)

discover_tools(present) == ToolsFrom(present, 1)

\* models.py: Skill.get_tool, the first tool of that name, or None.
NoTool == [name |-> <<>>, script_path |-> 0]

skill_get_tool(tools, name) ==
    IF \E i \in 1..Len(tools) : tools[i].name = name
    THEN tools[CHOOSE i \in 1..Len(tools) :
                  tools[i].name = name /\ \A j \in 1..(i-1) : tools[j].name # name]
    ELSE NoTool

\* What the parser is given: a name to validate, or the entries of scripts/.
NoGiven == [fn |-> "", name |-> <<>>, scripts |-> {}]
\* What it makes: the error of the name ("" for none), or the tools.
NoMade == [done |-> FALSE, error |-> "", tools |-> <<>>]

NoSkill == [id |-> 0, name |-> "", tags |-> {}, root |-> 0, dir |-> ""]

\* Skill.metadata (SkillMetadata: name and tags are the modelled fields).
MetadataOf(s) == [name |-> s.name, tags |-> s.tags]

(***************************************************************************)
(* parser.py: SkillParser.parse.  A missing SKILL.md raises                *)
(* SkillParseError, a bad header SkillValidationError (or SkillParseError);*)
(* otherwise a new Skill rooted at the directory is returned.  The result  *)
(* carries id 0: the caller that keeps the object gives it its identity.   *)
(***************************************************************************)
parse(dk, r, d) ==
    LET m == dk[<<r, d>>] IN
    IF m.kind = "none" THEN [ok |-> FALSE, exc |-> "SkillParseError", skill |-> NoSkill]
    ELSE IF m.kind = "invalid" THEN [ok |-> FALSE, exc |-> "SkillValidationError", skill |-> NoSkill]
    ELSE [ok |-> TRUE, exc |-> "",
          skill |-> [id |-> 0, name |-> m.name, tags |-> m.tags, root |-> r, dir |-> d]]

(***************************************************************************)
(* discovery.py: SkillDiscovery._find_skill_directories.  os.walk top-down:*)
(* a directory whose files include SKILL.md is appended and its            *)
(* sub-directories are dropped from the walk (dirs.clear()).               *)
(***************************************************************************)
RECURSIVE WalkDir(_, _, _), WalkDirs(_, _, _), WalkDirsNoClear(_, _, _)
\* The walk without dirs.clear(): it descends into a bundle's sub-directories.
WalkDirsNoClear(dk, r, ds) ==
    IF ds = <<>> THEN <<>>
    ELSE LET d == Head(ds) IN
         (IF dk[<<r, d>>].kind # "none" THEN <<d>> ELSE <<>>)
         \o WalkDirsNoClear(dk, r, Children(d))
         \o WalkDirsNoClear(dk, r, Tail(ds))

WalkDir(dk, r, d) ==
    IF d # TopDir /\ dk[<<r, d>>].kind # "none"
    THEN <<d>>
    ELSE WalkDirs(dk, r, Children(d))

WalkDirs(dk, r, ds) ==
    IF ds = <<>> THEN <<>>
    ELSE WalkDir(dk, r, Head(ds)) \o WalkDirs(dk, r, Tail(ds))

find_skill_directories_descending(dk, r) == WalkDirsNoClear(dk, r, Children(TopDir))

find_skill_directories(dk, r) == WalkDir(dk, r, TopDir)

\* The candidate bundle directories of roots r, r+1, ..., in the order the
\* loops "for search_path in self.skill_paths: for skill_dir in ..." visit them.
RECURSIVE CandidatesFrom(_, _)
CandidatesFrom(dk, r) ==
    IF r > Len(skill_paths) THEN <<>>
    ELSE LET ds == find_skill_directories(dk, r) IN
         [i \in 1..Len(ds) |-> <<r, ds[i]>>] \o CandidatesFrom(dk, r + 1)

SeqNames(sq) == {sq[i].name : i \in 1..Len(sq)}

(***************************************************************************)
(* discovery.py: SkillDiscovery.discover_skills.  acc is `skills`; the set *)
(* seen_names is the set of names in it.                                   *)
(***************************************************************************)
RECURSIVE SkillsLoop(_, _, _), SkillsLoopLastWins(_, _, _), SkillsLoopAbort(_, _, _)
\* The loop with the duplicate test dropped and a later bundle replacing an
\* earlier one of the same name.
SkillsLoopLastWins(dk, cands, acc) ==
    IF cands = <<>> THEN acc
    ELSE LET p == parse(dk, Head(cands)[1], Head(cands)[2]) IN
         IF ~p.ok THEN SkillsLoopLastWins(dk, Tail(cands), acc)
         ELSE SkillsLoopLastWins(dk, Tail(cands),
                Append(SelectSeq(acc, LAMBDA s : s.name # p.skill.name), p.skill))

\* The loop without the try/except: the exception of the first bundle that
\* fails to parse ends the scan and reaches the caller.
SkillsLoopAbort(dk, cands, acc) ==
    IF cands = <<>> THEN [exc |-> "", out |-> acc]
    ELSE LET p == parse(dk, Head(cands)[1], Head(cands)[2]) IN
         IF ~p.ok THEN [exc |-> p.exc, out |-> <<>>]
         ELSE IF p.skill.name \in SeqNames(acc) THEN SkillsLoopAbort(dk, Tail(cands), acc)
         ELSE SkillsLoopAbort(dk, Tail(cands), Append(acc, p.skill))

SkillsLoop(dk, cands, acc) ==
    IF cands = <<>> THEN acc
    ELSE LET p == parse(dk, Head(cands)[1], Head(cands)[2]) IN
         IF ~p.ok THEN SkillsLoop(dk, Tail(cands), acc)
         ELSE IF p.skill.name \in SeqNames(acc) THEN SkillsLoop(dk, Tail(cands), acc)
         ELSE SkillsLoop(dk, Tail(cands), Append(acc, p.skill))

\* What a discovery call gives: the exception that reached the caller ("" for
\* none) and the list returned.
discovery_discover_skills_last_wins(dk) ==
    [exc |-> "", out |-> SkillsLoopLastWins(dk, CandidatesFrom(dk, 1), <<>>)]

discovery_discover_skills_unguarded(dk) == SkillsLoopAbort(dk, CandidatesFrom(dk, 1), <<>>)

discovery_discover_skills(dk) == [exc |-> "", out |-> SkillsLoop(dk, CandidatesFrom(dk, 1), <<>>)]

(***************************************************************************)
(* discovery.py: SkillDiscovery.discover_metadata: the same traversal,     *)
(* keeping skill.metadata.                                                 *)
(***************************************************************************)
RECURSIVE MetadataLoop(_, _, _)
MetadataLoop(dk, cands, acc) ==
    IF cands = <<>> THEN acc
    ELSE LET p == parse(dk, Head(cands)[1], Head(cands)[2]) IN
         IF ~p.ok THEN MetadataLoop(dk, Tail(cands), acc)
         ELSE IF p.skill.name \in SeqNames(acc) THEN MetadataLoop(dk, Tail(cands), acc)
         ELSE MetadataLoop(dk, Tail(cands), Append(acc, MetadataOf(p.skill)))

discovery_discover_metadata(dk) ==
    [exc |-> "", out |-> MetadataLoop(dk, CandidatesFrom(dk, 1), <<>>)]

(***************************************************************************)
(* discovery.py: SkillDiscovery.find_skill_path: the first candidate that  *)
(* parses to the name, or None.                                            *)
(***************************************************************************)
NoPath == <<0, "">>

RECURSIVE FindLoop(_, _, _), FindLoopAnyName(_, _, _)
\* The loop without the comparison of names: the first candidate that parses.
FindLoopAnyName(dk, cands, n) ==
    IF cands = <<>> THEN NoPath
    ELSE LET p == parse(dk, Head(cands)[1], Head(cands)[2]) IN
         IF p.ok THEN Head(cands)
         ELSE FindLoopAnyName(dk, Tail(cands), n)

FindLoop(dk, cands, n) ==
    IF cands = <<>> THEN NoPath
    ELSE LET p == parse(dk, Head(cands)[1], Head(cands)[2]) IN
         IF p.ok /\ p.skill.name = n THEN Head(cands)
         ELSE FindLoop(dk, Tail(cands), n)

find_skill_path(dk, n) == FindLoop(dk, CandidatesFrom(dk, 1), n)

(***************************************************************************)
(* Object identity.  Two Skill objects are compared only when they carry   *)
(* the same name, so an object's identity is its name with a number.  A    *)
(* new Skill object differs from every object of its name something still  *)
(* refers to; the number of an object nothing refers to may be used again. *)
(* live is the set of numbers in use for the name, and the new object      *)
(* takes the smallest number outside it.                                   *)
(***************************************************************************)
RECURSIVE FreshFrom(_, _)
FreshFrom(live, i) == IF i \in live THEN FreshFrom(live, i + 1) ELSE i

FreshId(live) == FreshFrom(live, 1)

(***************************************************************************)
(* client.py: AgentSkillsClient.load_skill, as a function of the skill     *)
(* cache, the identities in use per name and the disk.  It gives the       *)
(* exception                                                               *)
(* raised ("" for none), the Skill returned, the cache afterwards and      *)
(* whether the cache answered.                                             *)
(***************************************************************************)
\* load_skill without the cache test: every call parses again.
load_skill_no_cache(cache, live, dk, n) ==
    LET path == find_skill_path(dk, n) IN
    IF path = NoPath
    THEN [exc |-> "SkillNotFoundError", args |-> <<n, skill_paths>>, skill |-> NoSkill,
               cache |-> cache, hit |-> FALSE]
    ELSE LET p == parse(dk, path[1], path[2])
             sk == [p.skill EXCEPT !.id = FreshId(live[n])] IN
         IF ~p.ok
         THEN [exc |-> p.exc, args |-> <<>>, skill |-> NoSkill, cache |-> cache, hit |-> FALSE]
         ELSE [exc |-> "", args |-> <<>>, skill |-> sk, cache |-> [cache EXCEPT ![n] = sk],
               hit |-> FALSE]

\* load_skill that answers None for a name it does not find, raising nothing.
load_skill_none_on_miss(cache, live, dk, n) ==
    IF cache[n] # NoSkill
    THEN [exc |-> "", args |-> <<>>, skill |-> cache[n], cache |-> cache, hit |-> TRUE]
    ELSE IF find_skill_path(dk, n) = NoPath
    THEN [exc |-> "", args |-> <<>>, skill |-> NoSkill, cache |-> cache, hit |-> FALSE]
    ELSE load_skill_no_cache(cache, live, dk, n)

load_skill(cache, live, dk, n) ==
    IF cache[n] # NoSkill
    THEN [exc |-> "", args |-> <<>>, skill |-> cache[n], cache |-> cache, hit |-> TRUE]
    ELSE LET path == find_skill_path(dk, n) IN
         IF path = NoPath
         THEN [exc |-> "SkillNotFoundError", args |-> <<n, skill_paths>>, skill |-> NoSkill,
               cache |-> cache, hit |-> FALSE]
         ELSE LET p == parse(dk, path[1], path[2])
                  sk == [p.skill EXCEPT !.id = FreshId(live[n])] IN
              IF ~p.ok
              THEN [exc |-> p.exc, args |-> <<>>, skill |-> NoSkill, cache |-> cache, hit |-> FALSE]
              ELSE [exc |-> "", args |-> <<>>, skill |-> sk,
                    cache |-> [cache EXCEPT ![n] = sk], hit |-> FALSE]

(***************************************************************************)
(* client.py: AgentSkillsClient.search_skills, the loop over the metadata  *)
(* cache for a query that gives only tags.  An entry is skipped when the   *)
(* query has tags and none of them is among the entry's; a surviving entry *)
(* is loaded, and a load that raises is skipped.                           *)
(***************************************************************************)
RECURSIVE SearchLoop(_, _, _, _, _, _), SearchLoopUnguarded(_, _, _, _, _, _)
\* The loop without the try/except around load_skill: a load that raises
\* ends the search with its exception.
SearchLoopUnguarded(metas, qtags, cache, live, dk, acc) ==
    IF metas = <<>> THEN [exc |-> "", cache |-> cache, out |-> acc]
    ELSE LET m == Head(metas) IN
         IF qtags # {} /\ qtags \cap m.tags = {}
         THEN SearchLoopUnguarded(Tail(metas), qtags, cache, live, dk, acc)
         ELSE LET l == load_skill(cache, live, dk, m.name) IN
              IF l.exc # ""
              THEN [exc |-> l.exc, cache |-> cache, out |-> <<>>]
              ELSE SearchLoopUnguarded(Tail(metas), qtags, l.cache, live, dk,
                                       Append(acc, l.skill))

SearchLoop(metas, qtags, cache, live, dk, acc) ==
    IF metas = <<>> THEN [exc |-> "", cache |-> cache, out |-> acc]
    ELSE LET m == Head(metas) IN
         IF qtags # {} /\ qtags \cap m.tags = {}
         THEN SearchLoop(Tail(metas), qtags, cache, live, dk, acc)
         ELSE LET l == load_skill(cache, live, dk, m.name) IN
              IF l.exc # ""
              THEN SearchLoop(Tail(metas), qtags, cache, live, dk, acc)
              ELSE SearchLoop(Tail(metas), qtags, l.cache, live, dk, Append(acc, l.skill))

\* The names search_skills calls load_skill for.
SearchLoaded(metas, qtags) ==
    {metas[i].name : i \in {j \in 1..Len(metas) : qtags = {} \/ qtags \cap metas[j].tags # {}}}

\* The skills discover_skills returns, each a new object.
Numbered(sq, live) ==
    [i \in 1..Len(sq) |-> [sq[i] EXCEPT !.id = FreshId(live[sq[i].name])]]

\* The skill cache had discover_skills assigned it anew from the skills found.
CacheReplaced(cache, sq) ==
    [n \in Names |-> IF \E i \in 1..Len(sq) : sq[i].name = n
                     THEN sq[CHOOSE i \in 1..Len(sq) : sq[i].name = n
                                  /\ \A j \in (i+1)..Len(sq) : sq[j].name # n]
                     ELSE NoSkill]

\* The skill cache after "for skill in skills: self._skills_cache[skill.name] = skill".
CacheUpdated(cache, sq) ==
    [n \in Names |-> IF \E i \in 1..Len(sq) : sq[i].name = n
                     THEN sq[CHOOSE i \in 1..Len(sq) : sq[i].name = n
                                  /\ \A j \in (i+1)..Len(sq) : sq[j].name # n]
                     ELSE cache[n]]

(***************************************************************************)
(* History of the calls, kept for the properties.                          *)
(*   loaded[n]        id: the identity load_skill(n) last returned since   *)
(*                    the last reload_skills (0: it has not returned);     *)
(*                    disc: discover_skills has run since that return      *)
(*   after_reload[n]  -1, or from reload_skills until the next             *)
(*                    load_skill(n): the identity of the entry the cache   *)
(*                    held for n when reload_skills cleared it (0: none)   *)
(***************************************************************************)
NotLoaded == [id |-> 0, disc |-> FALSE]

\* loaded after a call of load_skill(n) that answered l.
Noted(hist, n, l) ==
    IF l.exc = "" THEN [hist EXCEPT ![n] = [id |-> l.skill.id, disc |-> FALSE]] ELSE hist

\* The identities in use per name: the cache's entry and those the history holds.
Live == [n \in Names |-> {skills_cache[n].id, loaded[n].id, after_reload[n]} \ {0, -1}]

\* The same once discover_skills has dropped the cache's entries.
LiveHistory == [n \in Names |-> {loaded[n].id, after_reload[n]} \ {0, -1}]

(***************************************************************************)
(* What a call leaves in ret: the answer of a load_skill call of the       *)
(* client (Spec), of a call of the walker (SpecDisc) or of a get_resource  *)
(* call (SpecRes); any other call clears it.                               *)
(*   op, name  the call                                                    *)
(*   exc       the exception raised, "" when the call returned             *)
(*   skill     the Skill returned (load_skill)                             *)
(*   out       the list returned (discover_skills, discover_metadata)      *)
(*   path      the directory returned (find_skill_path)                    *)
(*   prev      loaded[name] before the call                                *)
(*   pending   after_reload[name] before the call                          *)
(*   hit       the skill cache answered                                    *)
(*   res       the resource asked for (get_resource)                       *)
(*   bytes     the content returned (get_resource)                         *)
(*   args      what the exception carries (SkillNotFoundError)             *)
(*   qtags     the tags of the query (search_skills)                       *)
(*   meta      the SkillMetadata returned (get_metadata)                   *)
(*   ok        the verdict returned (validate_skill)                       *)
(*   errors    the error messages returned (validate_skill)                *)
(***************************************************************************)
NoMeta == MetadataOf(NoSkill)

Ret(op, n, exc, sk, out) ==
    [op |-> op, name |-> n, exc |-> exc, skill |-> sk, out |-> out, path |-> NoPath,
     prev |-> NotLoaded, pending |-> -1, hit |-> FALSE, res |-> "", bytes |-> "",
     args |-> <<>>, qtags |-> {}, meta |-> NoMeta, ok |-> FALSE, errors |-> <<>>]

NoRet == Ret("", "", "", NoSkill, <<>>)

(***************************************************************************)
(* Python values that cross the tool boundary: t is the type, v the        *)
(* value's repr.  None is Python's None, which is also what JSON null      *)
(* decodes to and what an absent field of a result holds.                  *)
(***************************************************************************)
None == [t |-> "none", v |-> ""]
Str(s) == [t |-> "str", v |-> s]
Val(t, s) == [t |-> t, v |-> s]

\* Python truth of a value, as `or` tests it.
Truthy(j) ==
    CASE j.t = "none" -> FALSE
      [] j.t = "str"  -> j.v # ""
      [] j.t = "int"  -> j.v # "0"
      [] j.t = "bool" -> j.v = "True"
      [] OTHER        -> j.v \notin {"[]", "{}"}

\* a or b
Or(a, b) == IF Truthy(a) THEN a ELSE b

(***************************************************************************)
(* An execute() call: the override it was given, the timeout in force,     *)
(* where it stands (idle, running: blocked in subprocess.run, done), the   *)
(* child process (none, running, exited, killed), how the child ended and  *)
(* what it left.  result is what the call gave  *)
(* its caller: a ToolExecutionResult or an exception.                      *)
(***************************************************************************)
NoOverride == [given |-> FALSE, value |-> 0]
Override(v) == [given |-> TRUE, value |-> v]

NoCall ==
    [phase |-> "idle", has_tool |-> FALSE, script_exists |-> FALSE,
     timeout |-> NoOverride, exec_timeout |-> 0, child |-> "none",
     outcome |-> "", rc |-> 0, stdout |-> "", stderr |-> ""]

NoResult ==
    [kind |-> "none", exc |-> "", success |-> FALSE, data |-> None, error |-> None,
     stdout |-> None, stderr |-> None, exit_code |-> None]

(***************************************************************************)
(* The client's state after AgentSkillsClient(skill_paths), constructed    *)
(* over a disk where <r1>/p and <r2>/p hold any SKILL.md or none: the      *)
(* skill cache is empty and auto_discover has filled the metadata cache    *)
(* (client.py, __init__).                                                  *)
(***************************************************************************)
\* The directories whose SKILL.md differs between the client's runs and
\* changes while it runs.
ClientSlots == {<<1, "p">>, <<2, "p">>}

\* The manifests written there: none, a bad one, skill "a" tagged data, skill "b".
ClientManifests ==
    {NoFile, Invalid, [kind |-> "valid", name |-> "a", tags |-> {"data"}],
     [kind |-> "valid", name |-> "b", tags |-> {}]}

ClientDisks ==
    {[x \in Roots \X DirNames |-> IF x \in ClientSlots THEN f[x] ELSE NoFile] :
        f \in [ClientSlots -> ClientManifests]}

Init ==
    /\ disk \in ClientDisks
    /\ skills_cache = [n \in Names |-> NoSkill]
    /\ metadata_cache = discovery_discover_metadata(disk).out
    /\ ret = NoRet
    /\ loaded = [n \in Names |-> NotLoaded]
    /\ after_reload = [n \in Names |-> -1]
    /\ call = NoCall
    /\ result = NoResult
    /\ files = NoFiles
    /\ resources = [n \in Names |-> <<>>]
    /\ given = NoGiven
    /\ made = NoMade

(***************************************************************************)
(* The environment: somebody writes, replaces or removes one SKILL.md      *)
(* between two client calls.  What the last call returned is then no       *)
(* longer an answer about the disk as it is, and ret is cleared.           *)
(***************************************************************************)
EditDisk(r, d, m) ==
    /\ <<r, d>> \in ClientSlots
    /\ m \in ClientManifests
    /\ disk[<<r, d>>] # m
    /\ disk' = [disk EXCEPT ![<<r, d>>] = m]
    /\ ret' = NoRet
    /\ UNCHANGED <<skills_cache, metadata_cache, loaded, after_reload, call, result, resvars, parsevars>>

\* client.load_skill(n)
LoadSkill(n) ==
    LET l == load_skill(skills_cache, Live, disk, n) IN
    /\ skills_cache' = l.cache
    /\ ret' = [Ret("load_skill", n, l.exc, l.skill, <<>>) EXCEPT
                 !.prev = loaded[n], !.pending = after_reload[n], !.hit = l.hit]
    /\ loaded' = Noted(loaded, n, l)
    /\ after_reload' = [after_reload EXCEPT ![n] = -1]
    /\ UNCHANGED <<disk, metadata_cache, call, result, resvars, parsevars>>

\* client.discover_skills()
DiscoverSkills ==
    LET sq == Numbered(discovery_discover_skills(disk).out, LiveHistory) IN
    /\ skills_cache' = CacheUpdated(skills_cache, sq)
    /\ ret' = NoRet
    /\ loaded' = [n \in Names |-> IF loaded[n].id = 0 THEN loaded[n]
                                   ELSE [loaded[n] EXCEPT !.disc = TRUE]]
    /\ UNCHANGED <<disk, metadata_cache, after_reload, call, result, resvars, parsevars>>

\* client.discover_metadata()
DiscoverMetadata ==
    LET ms == discovery_discover_metadata(disk).out IN
    /\ metadata_cache' = ms
    /\ ret' = NoRet
    /\ UNCHANGED <<disk, skills_cache, loaded, after_reload, call, result, resvars, parsevars>>

\* client.get_metadata(n)
GetMetadata(n) ==
    IF skills_cache[n] # NoSkill
    THEN /\ ret' = NoRet
         /\ UNCHANGED <<disk, skills_cache, metadata_cache, loaded, after_reload,
                        call, result, resvars, parsevars>>
    ELSE IF \E i \in 1..Len(metadata_cache) : metadata_cache[i].name = n
    THEN /\ ret' = NoRet
         /\ UNCHANGED <<disk, skills_cache, metadata_cache, loaded, after_reload,
                        call, result, resvars, parsevars>>
    ELSE LET l == load_skill(skills_cache, Live, disk, n) IN
         /\ skills_cache' = l.cache
         /\ ret' = NoRet
         /\ loaded' = Noted(loaded, n, l)
         /\ after_reload' = [after_reload EXCEPT ![n] = -1]
         /\ UNCHANGED <<disk, metadata_cache, call, result, resvars, parsevars>>

\* client.search_skills(tags=qtags)
SearchSkills(qtags) ==
    LET sr == SearchLoop(metadata_cache, qtags, skills_cache, Live, disk, <<>>)
        tried == SearchLoaded(metadata_cache, qtags) IN
    /\ skills_cache' = sr.cache
    /\ ret' = NoRet
    /\ loaded' = [n \in Names |-> IF n \in tried /\ sr.cache[n] # NoSkill
                                   THEN [id |-> sr.cache[n].id, disc |-> FALSE]
                                   ELSE loaded[n]]
    /\ after_reload' = [n \in Names |-> IF n \in tried THEN -1 ELSE after_reload[n]]
    /\ UNCHANGED <<disk, metadata_cache, call, result, resvars, parsevars>>

\* client.list_skills()
ListSkills ==
    LET ms == IF metadata_cache = <<>> THEN discovery_discover_metadata(disk).out
              ELSE metadata_cache IN
    /\ metadata_cache' = ms
    /\ ret' = NoRet
    /\ UNCHANGED <<disk, skills_cache, loaded, after_reload, call, result, resvars, parsevars>>

\* client.execute_tool(n, ...): the skill is loaded and handed to the
\* executor, whose answer touches no client state (SpecExec).
ExecuteTool(n) ==
    LET l == load_skill(skills_cache, Live, disk, n) IN
    /\ skills_cache' = l.cache
    /\ ret' = NoRet
    /\ loaded' = Noted(loaded, n, l)
    /\ after_reload' = [after_reload EXCEPT ![n] = -1]
    /\ UNCHANGED <<disk, metadata_cache, call, result, resvars, parsevars>>

\* self._skills_cache.clear(), and the same left out.
cache_clear_skipped(cache) == cache

cache_clear(cache) == [n \in Names |-> NoSkill]

\* client.reload_skills()
ReloadSkills ==
    /\ skills_cache' = cache_clear(skills_cache)
    /\ metadata_cache' = discovery_discover_metadata(disk).out
    /\ ret' = NoRet
    /\ loaded' = [n \in Names |-> NotLoaded]
    /\ after_reload' = [n \in Names |-> skills_cache[n].id]
    /\ resources' = [n \in Names |-> <<>>]
    /\ UNCHANGED <<disk, call, result, files, parsevars>>

Next ==
    \/ \E r \in Roots, d \in DirNames, m \in Manifests : EditDisk(r, d, m)
    \/ \E n \in Names : LoadSkill(n)
    \/ DiscoverSkills
    \/ DiscoverMetadata
    \/ \E n \in Names : GetMetadata(n)
    \/ \E q \in TagSets : SearchSkills(q)
    \/ ListSkills
    \/ \E n \in Names : ExecuteTool(n)
    \/ ReloadSkills

Spec == Init /\ [][Next]_vars

(***************************************************************************)
(* client.py: AgentSkillsClient.get_metadata, as a function of the two     *)
(* caches, the identities in use and the disk: the exception raised, the   *)
(* SkillMetadata returned and the skill cache afterwards.                  *)
(***************************************************************************)
\* The first entry of the metadata cache named n.
MetadataNamed(metas, n) ==
    metas[CHOOSE i \in 1..Len(metas) :
              metas[i].name = n /\ \A j \in 1..(i-1) : metas[j].name # n]

\* get_metadata that looks in the metadata cache before the skill cache.
get_metadata_metadata_first(cache, metas, live, dk, n) ==
    IF n \in SeqNames(metas)
    THEN [exc |-> "", args |-> <<>>, meta |-> MetadataNamed(metas, n), cache |-> cache]
    ELSE IF cache[n] # NoSkill
    THEN [exc |-> "", args |-> <<>>, meta |-> MetadataOf(cache[n]), cache |-> cache]
    ELSE LET l == load_skill(cache, live, dk, n) IN
         [exc |-> l.exc, args |-> l.args, meta |-> MetadataOf(l.skill), cache |-> l.cache]

get_metadata(cache, metas, live, dk, n) ==
    IF cache[n] # NoSkill
    THEN [exc |-> "", args |-> <<>>, meta |-> MetadataOf(cache[n]), cache |-> cache]
    ELSE IF n \in SeqNames(metas)
    THEN [exc |-> "", args |-> <<>>, meta |-> MetadataNamed(metas, n), cache |-> cache]
    ELSE LET l == load_skill(cache, live, dk, n) IN
         [exc |-> l.exc, args |-> l.args, meta |-> MetadataOf(l.skill), cache |-> l.cache]

(***************************************************************************)
(* parser.py: SkillParser.validate: the bundle is parsed; a parse or       *)
(* validation error becomes the one error message, and a Skill with an     *)
(* empty name adds "Skill name is required".  The description is not       *)
(* modelled: a header that validates has one of at least one character.    *)
(***************************************************************************)
parser_validate(dk, r, d) ==
    LET p == parse(dk, r, d)
        errors == IF ~p.ok THEN <<p.exc>>
                  ELSE IF p.skill.name = "" THEN <<"Skill name is required">>
                  ELSE <<>> IN
    [ok |-> Len(errors) = 0, errors |-> errors]

(***************************************************************************)
(* client.py: AgentSkillsClient.validate_skill.  It uses no cache.         *)
(***************************************************************************)
\* validate_skill that validates the first bundle directory of the roots
\* whose header declares the name, whether it parses or not.
validate_skill_by_declared_name(dk, n) ==
    LET cands == CandidatesFrom(dk, 1)
        decl == {i \in 1..Len(cands) : dk[cands[i]].name = n} IN
    IF decl = {}
    THEN [exc |-> "SkillNotFoundError", args |-> <<n, skill_paths>>, ok |-> FALSE,
          errors |-> <<>>]
    ELSE LET path == cands[CHOOSE i \in decl : \A j \in decl : i <= j]
             v == parser_validate(dk, path[1], path[2]) IN
         [exc |-> "", args |-> <<>>, ok |-> v.ok, errors |-> v.errors]

validate_skill(dk, n) ==
    LET path == find_skill_path(dk, n) IN
    IF path = NoPath
    THEN [exc |-> "SkillNotFoundError", args |-> <<n, skill_paths>>, ok |-> FALSE,
          errors |-> <<>>]
    ELSE LET v == parser_validate(dk, path[1], path[2]) IN
         [exc |-> "", args |-> <<>>, ok |-> v.ok, errors |-> v.errors]

(***************************************************************************)
(* SpecOps: the client and the disk of Spec, with the answer of every call *)
(* kept in ret and no history of earlier calls.  Here a bundle of skill    *)
(* "a" may also lose its tag between two calls, and the SKILL.md that does *)
(* not validate is one whose header names the skill "a".                   *)
(***************************************************************************)
InvalidNamed == [kind |-> "invalid", name |-> "a", tags |-> {}]

OpsManifests ==
    {NoFile, InvalidNamed, [kind |-> "valid", name |-> "a", tags |-> {"data"}],
     [kind |-> "valid", name |-> "a", tags |-> {}],
     [kind |-> "valid", name |-> "b", tags |-> {}]}

OpsDisks ==
    {[x \in Roots \X DirNames |-> IF x \in ClientSlots THEN f[x] ELSE NoFile] :
        f \in [ClientSlots -> OpsManifests]}

InitOps ==
    /\ disk \in OpsDisks
    /\ skills_cache = [n \in Names |-> NoSkill]
    /\ metadata_cache = discovery_discover_metadata(disk).out
    /\ ret = NoRet
    /\ loaded = [n \in Names |-> NotLoaded]
    /\ after_reload = [n \in Names |-> -1]
    /\ call = NoCall
    /\ result = NoResult
    /\ files = NoFiles
    /\ resources = [n \in Names |-> <<>>]
    /\ given = NoGiven
    /\ made = NoMade

\* What no call of the client touches here.
opsfixed == <<loaded, after_reload, call, result, files, resources, given, made>>

\* A SKILL.md is written, replaced or removed between two client calls.
EditDiskOps(sl, m) ==
    /\ disk[sl] # m
    /\ disk' = [disk EXCEPT ![sl] = m]
    /\ ret' = NoRet
    /\ UNCHANGED <<skills_cache, metadata_cache, opsfixed>>

\* client.load_skill(n)
LoadSkillOps(n) ==
    LET l == load_skill(skills_cache, Live, disk, n) IN
    /\ skills_cache' = l.cache
    /\ ret' = [Ret("load_skill", n, l.exc, l.skill, <<>>) EXCEPT
                 !.args = l.args, !.hit = l.hit]
    /\ UNCHANGED <<disk, metadata_cache, opsfixed>>

\* client.discover_skills()
DiscoverSkillsOps ==
    LET sq == Numbered(discovery_discover_skills(disk).out, Live) IN
    /\ skills_cache' = CacheUpdated(skills_cache, sq)
    /\ ret' = Ret("discover_skills", "", "", NoSkill, sq)
    /\ UNCHANGED <<disk, metadata_cache, opsfixed>>

\* client.discover_metadata()
DiscoverMetadataOps ==
    LET ms == discovery_discover_metadata(disk).out IN
    /\ metadata_cache' = ms
    /\ ret' = Ret("discover_metadata", "", "", NoSkill, ms)
    /\ UNCHANGED <<disk, skills_cache, opsfixed>>

\* client.get_metadata(n)
GetMetadataOps(n) ==
    LET g == get_metadata(skills_cache, metadata_cache, Live, disk, n) IN
    /\ skills_cache' = g.cache
    /\ ret' = [Ret("get_metadata", n, g.exc, NoSkill, <<>>) EXCEPT
                 !.args = g.args, !.meta = g.meta]
    /\ UNCHANGED <<disk, metadata_cache, opsfixed>>

\* client.search_skills(tags=qtags)
SearchSkillsOps(qtags) ==
    LET sr == SearchLoop(metadata_cache, qtags, skills_cache, Live, disk, <<>>) IN
    /\ skills_cache' = sr.cache
    /\ ret' = [Ret("search_skills", "", sr.exc, NoSkill, sr.out) EXCEPT !.qtags = qtags]
    /\ UNCHANGED <<disk, metadata_cache, opsfixed>>

\* client.list_skills()
ListSkillsOps ==
    LET ms == IF metadata_cache = <<>> THEN discovery_discover_metadata(disk).out
              ELSE metadata_cache IN
    /\ metadata_cache' = ms
    /\ ret' = Ret("list_skills", "", "", NoSkill, ms)
    /\ UNCHANGED <<disk, skills_cache, opsfixed>>

\* client.validate_skill(n)
ValidateSkillOps(n) ==
    LET v == validate_skill(disk, n) IN
    /\ ret' = [Ret("validate_skill", n, v.exc, NoSkill, <<>>) EXCEPT
                 !.args = v.args, !.ok = v.ok, !.errors = v.errors]
    /\ UNCHANGED <<disk, skills_cache, metadata_cache, opsfixed>>

\* client.reload_skills(); ret keeps whether the skill cache held anything
\* and the metadata cache as it was.
ReloadSkillsOps ==
    /\ skills_cache' = cache_clear(skills_cache)
    /\ metadata_cache' = discovery_discover_metadata(disk).out
    /\ ret' = [Ret("reload_skills", "", "", NoSkill, metadata_cache) EXCEPT
                 !.hit = (\E n \in Names : skills_cache[n] # NoSkill)]
    /\ UNCHANGED <<disk, opsfixed>>

NextOps ==
    \/ \E sl \in ClientSlots, m \in OpsManifests : EditDiskOps(sl, m)
    \/ \E n \in Names : LoadSkillOps(n)
    \/ DiscoverSkillsOps
    \/ DiscoverMetadataOps
    \/ \E n \in Names : GetMetadataOps(n)
    \/ \E q \in TagSets : SearchSkillsOps(q)
    \/ ListSkillsOps
    \/ \E n \in Names : ValidateSkillOps(n)
    \/ ReloadSkillsOps

SpecOps == InitOps /\ [][NextOps]_vars

(***************************************************************************)
(* SpecDisc: a SkillDiscovery over skill_paths, called on every layout of  *)
(* the disk.                                                               *)
(***************************************************************************)
AllDisks == [Roots \X DirNames -> Manifests]

InitDisc ==
    /\ disk \in AllDisks
    /\ skills_cache = [n \in Names |-> NoSkill]
    /\ metadata_cache = <<>>
    /\ ret = NoRet
    /\ loaded = [n \in Names |-> NotLoaded]
    /\ after_reload = [n \in Names |-> -1]
    /\ call = NoCall
    /\ result = NoResult
    /\ files = NoFiles
    /\ resources = [n \in Names |-> <<>>]
    /\ given = NoGiven
    /\ made = NoMade

\* discovery.discover_skills()
WalkerDiscoverSkills ==
    LET a == discovery_discover_skills(disk) IN
    /\ ret' = Ret("discover_skills", "", a.exc, NoSkill, a.out)
    /\ UNCHANGED <<disk, skills_cache, metadata_cache, loaded, after_reload, call, result, resvars, parsevars>>

\* discovery.discover_metadata()
WalkerDiscoverMetadata ==
    LET a == discovery_discover_metadata(disk) IN
    /\ ret' = Ret("discover_metadata", "", a.exc, NoSkill, a.out)
    /\ UNCHANGED <<disk, skills_cache, metadata_cache, loaded, after_reload, call, result, resvars, parsevars>>

\* discovery.find_skill_path(n)
WalkerFindSkillPath(n) ==
    /\ ret' = [Ret("find_skill_path", n, "", NoSkill, <<>>) EXCEPT
                 !.path = find_skill_path(disk, n)]
    /\ UNCHANGED <<disk, skills_cache, metadata_cache, loaded, after_reload, call, result, resvars, parsevars>>

NextDisc ==
    \/ WalkerDiscoverSkills
    \/ WalkerDiscoverMetadata
    \/ \E n \in Names : WalkerFindSkillPath(n)

SpecDisc == InitDisc /\ [][NextDisc]_vars

(***************************************************************************)
(* executor.py.  The texts a child may leave on its standard output and    *)
(* standard error, and json.loads on each of them.                         *)
(***************************************************************************)
Stdouts ==
    {"", "hello", "[1, 2]", "\"done\"", "3", "true", "null", "{}",
     "{\"data\": {\"x\": 1}}",
     "{\"status\": \"success\", \"data\": {\"x\": 1}}",
     "{\"status\": \"success\"}",
     "{\"status\": \"error\", \"message\": \"boom\"}",
     "{\"status\": \"error\", \"error\": \"bad\"}",
     "{\"status\": \"error\", \"message\": \"\", \"error\": \"bad\"}",
     "{\"status\": \"error\", \"message\": {\"code\": 5}}",
     "{\"status\": \"success\", \"message\": \"saved\"}"}

Stderrs == {"", "oops", "[1, 2]", "{\"message\": \"boom\"}"}

ExitCodes == {0, 1, 2}

\* The decode of a text: ok is FALSE for JSONDecodeError; value is the
\* decoded value; for a dict, keys are its keys and the fields their values.
NotJson ==
    [ok |-> FALSE, value |-> None, keys |-> {},
     status |-> None, data |-> None, message |-> None, error |-> None]

Decoded(j) == [NotJson EXCEPT !.ok = TRUE, !.value = j]

DecodedDict(repr, keys, status, data, message, error) ==
    [ok |-> TRUE, value |-> Val("dict", repr), keys |-> keys,
     status |-> status, data |-> data, message |-> message, error |-> error]

json_loads(text) ==
    CASE text = "[1, 2]"   -> Decoded(Val("list", "[1, 2]"))
      [] text = "\"done\"" -> Decoded(Str("done"))
      [] text = "3"        -> Decoded(Val("int", "3"))
      [] text = "true"     -> Decoded(Val("bool", "True"))
      [] text = "null"     -> Decoded(None)
      [] text = "{}"       -> DecodedDict("{}", {}, None, None, None, None)
      [] text = "{\"data\": {\"x\": 1}}" ->
            DecodedDict("{'data': {'x': 1}}", {"data"},
                        None, Val("dict", "{'x': 1}"), None, None)
      [] text = "{\"status\": \"success\", \"data\": {\"x\": 1}}" ->
            DecodedDict("{'status': 'success', 'data': {'x': 1}}", {"status", "data"},
                        Str("success"), Val("dict", "{'x': 1}"), None, None)
      [] text = "{\"status\": \"success\"}" ->
            DecodedDict("{'status': 'success'}", {"status"},
                        Str("success"), None, None, None)
      [] text = "{\"status\": \"error\", \"message\": \"boom\"}" ->
            DecodedDict("{'status': 'error', 'message': 'boom'}", {"status", "message"},
                        Str("error"), None, Str("boom"), None)
      [] text = "{\"status\": \"error\", \"error\": \"bad\"}" ->
            DecodedDict("{'status': 'error', 'error': 'bad'}", {"status", "error"},
                        Str("error"), None, None, Str("bad"))
      [] text = "{\"status\": \"error\", \"message\": \"\", \"error\": \"bad\"}" ->
            DecodedDict("{'status': 'error', 'message': '', 'error': 'bad'}",
                        {"status", "message", "error"},
                        Str("error"), None, Str(""), Str("bad"))
      [] text = "{\"status\": \"error\", \"message\": {\"code\": 5}}" ->
            DecodedDict("{'status': 'error', 'message': {'code': 5}}", {"status", "message"},
                        Str("error"), None, Val("dict", "{'code': 5}"), None)
      [] text = "{\"status\": \"success\", \"message\": \"saved\"}" ->
            DecodedDict("{'status': 'success', 'message': 'saved'}", {"status", "message"},
                        Str("success"), None, Str("saved"), None)
      [] text = "{\"message\": \"boom\"}" ->
            DecodedDict("{'message': 'boom'}", {"message"},
                        None, None, Str("boom"), None)
      [] OTHER -> NotJson

\* isinstance(output, dict)
IsDict(o) == o.ok /\ o.value.t = "dict"

\* output.get(k)
dict_get(o, k) == IF k \in o.keys THEN o[k] ELSE None

(***************************************************************************)
(* executor.py: ToolExecutor._execute_script, from the return of           *)
(* subprocess.run on: the dict it builds out of the child's exit code,     *)
(* stdout and stderr.                                                      *)
(***************************************************************************)
execute_script(rc, out, err) ==
    LET success == (rc = 0)
        output == json_loads(out)
        error_output == json_loads(err)
        parsed ==
            IF success /\ out # "" THEN
                IF output.ok THEN
                    IF IsDict(output)
                    THEN [success |-> (dict_get(output, "status") = Str("success")),
                          data |-> dict_get(output, "data"),
                          error |-> Or(dict_get(output, "message"), dict_get(output, "error"))]
                    ELSE [success |-> success, data |-> output.value, error |-> None]
                ELSE [success |-> success, data |-> Str(out), error |-> None]
            ELSE IF err # "" THEN
                IF error_output.ok /\ IsDict(error_output)
                THEN [success |-> success, data |-> None,
                      error |-> Or(dict_get(error_output, "message"),
                                   dict_get(error_output, "error"))]
                ELSE [success |-> success, data |-> None, error |-> Str(err)]
            ELSE [success |-> success, data |-> None, error |-> None]
    IN  [success |-> parsed.success, data |-> parsed.data, error |-> parsed.error,
         stdout |-> Str(out), stderr |-> Str(err), exit_code |-> Val("int", ToString(rc))]

\* raise exc
Raised(exc) == [NoResult EXCEPT !.kind = "raised", !.exc = exc]

\* return ToolExecutionResult(**r).  The model validates its fields: error is
\* Optional[str], and a value that is neither None nor a str is refused.
ToolExecutionResult(r) ==
    IF r.error.t \notin {"none", "str"} THEN Raised("ValidationError")
    ELSE [kind |-> "returned", exc |-> "", success |-> r.success, data |-> r.data,
          error |-> r.error, stdout |-> r.stdout, stderr |-> r.stderr,
          exit_code |-> r.exit_code]

\* The try block of execute() once subprocess.run has returned: what it
\* returns, or the ToolExecutionError that `except Exception` makes of
\* anything raised in it.
execute_try(rc, out, err) ==
    LET res == ToolExecutionResult(execute_script(rc, out, err)) IN
    IF res.kind = "raised" THEN Raised("ToolExecutionError") ELSE res

\* ToolExecutor(timeout=30).timeout
DefaultTimeout == 30

\* exec_timeout = timeout or self.timeout
effective_timeout(timeout) ==
    IF timeout.given /\ timeout.value # 0 THEN timeout.value ELSE DefaultTimeout

TimeoutMessage(t) == "Tool execution timed out after " \o ToString(t) \o "s"

\* subprocess.TimeoutExpired left to the `except Exception` clause.
execute_timeout_expired_unhandled(t) == Raised("ToolExecutionError")

\* except subprocess.TimeoutExpired:
execute_timeout_expired(t) ==
    [NoResult EXCEPT !.kind = "returned", !.error = Str(TimeoutMessage(t))]

(***************************************************************************)
(* SpecExec: a ToolExecutor called again and again.  execute() runs up to  *)
(* subprocess.run and blocks there; the child then exits in time, is still *)
(* running when the timeout elapses, or could not be started.              *)
(***************************************************************************)
Overrides == {NoOverride, Override(0), Override(1), Override(2)}

InitExec ==
    /\ disk = [sl \in Roots \X DirNames |-> NoFile]
    /\ skills_cache = [n \in Names |-> NoSkill]
    /\ metadata_cache = <<>>
    /\ ret = NoRet
    /\ loaded = [n \in Names |-> NotLoaded]
    /\ after_reload = [n \in Names |-> -1]
    /\ call = NoCall
    /\ result = NoResult
    /\ files = NoFiles
    /\ resources = [n \in Names |-> <<>>]
    /\ given = NoGiven
    /\ made = NoMade

\* The checks of execute() before the child is started: the exception they
\* raise, "" when they pass.  The second looks at the script first.
execute_precheck_script_first(has_tool, script_exists) ==
    IF ~script_exists THEN "ToolExecutionError"
    ELSE IF ~has_tool THEN "ToolNotFoundError"
    ELSE ""

execute_precheck(has_tool, script_exists) ==
    IF ~has_tool THEN "ToolNotFoundError"
    ELSE IF ~script_exists THEN "ToolExecutionError"
    ELSE ""

\* executor.execute(skill, tool_name, input_data, timeout), up to the child's
\* start.  has_tool: skill.get_tool(tool_name) finds the tool; script_exists:
\* the file tool.script_path names exists.
Execute(has_tool, script_exists, timeout) ==
    LET exc == execute_precheck(has_tool, script_exists)
        c == [NoCall EXCEPT !.has_tool = has_tool, !.script_exists = script_exists,
                            !.timeout = timeout] IN
    /\ call.phase # "running"
    /\ IF exc # "" THEN
           /\ call' = [c EXCEPT !.phase = "done",
                                !.outcome = IF exc = "ToolNotFoundError"
                                            THEN "no_tool" ELSE "no_script"]
           /\ result' = Raised(exc)
       ELSE
           /\ call' = [c EXCEPT !.phase = "running", !.child = "running",
                                !.exec_timeout = effective_timeout(timeout)]
           /\ result' = NoResult
    /\ UNCHANGED <<disk, skills_cache, metadata_cache, ret, loaded, after_reload, resvars, parsevars>>

\* subprocess.run returns: the child exited before the timeout.
ChildExits(rc, out, err) ==
    /\ call.phase = "running"
    /\ call' = [call EXCEPT !.phase = "done", !.outcome = "exit", !.child = "exited",
                            !.rc = rc, !.stdout = out, !.stderr = err]
    /\ result' = execute_try(rc, out, err)
    /\ UNCHANGED <<disk, skills_cache, metadata_cache, ret, loaded, after_reload, resvars, parsevars>>

\* subprocess.run(..., timeout=timeout) when the timeout elapses: it kills the
\* child and waits for it before it raises TimeoutExpired.  The first leaves
\* the child alone, as Popen.communicate(timeout=...) by itself does.
run_timeout_expired_child_left(child) == child

run_timeout_expired(child) == "killed"

\* subprocess.run raises TimeoutExpired: the child was still running when
\* exec_timeout seconds had passed.
ChildTimesOut ==
    /\ call.phase = "running"
    /\ call' = [call EXCEPT !.phase = "done", !.outcome = "timeout",
                            !.child = run_timeout_expired(call.child)]
    /\ result' = execute_timeout_expired(call.exec_timeout)
    /\ UNCHANGED <<disk, skills_cache, metadata_cache, ret, loaded, after_reload, resvars, parsevars>>

\* subprocess.run raises OSError: the child could not be started.
ChildFailsToStart ==
    /\ call.phase = "running"
    /\ call' = [call EXCEPT !.phase = "done", !.outcome = "oserror", !.child = "none"]
    /\ result' = Raised("ToolExecutionError")
    /\ UNCHANGED <<disk, skills_cache, metadata_cache, ret, loaded, after_reload, resvars, parsevars>>

NextExec ==
    \/ \E has_tool, script_exists \in BOOLEAN, timeout \in Overrides :
          Execute(has_tool, script_exists, timeout)
    \/ \E rc \in ExitCodes, out \in Stdouts, err \in Stderrs : ChildExits(rc, out, err)
    \/ ChildTimesOut
    \/ ChildFailsToStart

SpecExec == InitExec /\ [][NextExec]_vars

\* The child ends, one way or another.
ChildEnds ==
    \/ \E rc \in ExitCodes, out \in Stdouts, err \in Stderrs : ChildExits(rc, out, err)
    \/ ChildTimesOut
    \/ ChildFailsToStart

\* subprocess.run does not block for ever: exec_timeout is a positive number
\* of seconds, and when they have passed without the child's exit the
\* timeout fires.
SpecExecFair == SpecExec /\ WF_vars(ChildEnds)

(***************************************************************************)
(* parser.py: SkillParser._discover_resources.  The files of references/   *)
(* come before those of assets/; within a directory iterdir gives them in  *)
(* some order, here that of ResNames (names are unique within a            *)
(* directory, so the lookup by name does not depend on it).                *)
(***************************************************************************)
RECURSIVE FilesOf(_, _, _)
FilesOf(fs, dir, names) ==
    IF names = <<>> THEN <<>>
    ELSE (IF fs[<<dir, Head(names)>>] # Missing
          THEN <<[name |-> Head(names), path |-> <<dir, Head(names)>>]>>
          ELSE <<>>) \o FilesOf(fs, dir, Tail(names))

discover_resources(fs) == FilesOf(fs, ResDirs[1], ResNames) \o FilesOf(fs, ResDirs[2], ResNames)

\* models.py: Skill.get_resource, the first resource of that name, or None.
NoResource == [name |-> "", path |-> <<"", "">>]

skill_get_resource(rs, res) ==
    IF \E i \in 1..Len(rs) : rs[i].name = res
    THEN rs[CHOOSE i \in 1..Len(rs) : rs[i].name = res /\ \A j \in 1..(i-1) : rs[j].name # res]
    ELSE NoResource

\* client.py: get_resource from "resource = skill.get_resource(...)" on, with
\* rs the loaded Skill's resources: the exception raised and the bytes read.
\* The first reads without testing that the file exists.
read_resource_unchecked(fs, rs, res) ==
    LET r == skill_get_resource(rs, res) IN
    IF r = NoResource THEN [exc |-> "ResourceNotFoundError", bytes |-> ""]
    ELSE IF fs[r.path] = Missing THEN [exc |-> "FileNotFoundError", bytes |-> ""]
    ELSE [exc |-> "", bytes |-> fs[r.path]]

read_resource(fs, rs, res) ==
    LET r == skill_get_resource(rs, res) IN
    IF r = NoResource THEN [exc |-> "ResourceNotFoundError", bytes |-> ""]
    ELSE IF fs[r.path] = Missing THEN [exc |-> "ResourceNotFoundError", bytes |-> ""]
    ELSE [exc |-> "", bytes |-> fs[r.path]]

\* Skill.resources of the Skill load_skill answered with: those of the cached
\* Skill on a hit, those parse found on a miss.
ResourcesOf(l, rs, fs) ==
    IF l.hit THEN rs
    ELSE IF <<l.skill.root, l.skill.dir>> = ResBundle THEN discover_resources(fs)
    ELSE <<>>

(***************************************************************************)
(* SpecRes: a client over a disk whose one bundle, skill "a" at ResBundle, *)
(* has resource files that come, change and go while the client runs.      *)
(***************************************************************************)
ResDisk ==
    [sl \in Roots \X DirNames |->
        IF sl = ResBundle THEN [kind |-> "valid", name |-> "a", tags |-> {"data"}]
        ELSE NoFile]

InitRes ==
    /\ disk = ResDisk
    /\ skills_cache = [n \in Names |-> NoSkill]
    /\ metadata_cache = discovery_discover_metadata(disk).out
    /\ ret = NoRet
    /\ loaded = [n \in Names |-> NotLoaded]
    /\ after_reload = [n \in Names |-> -1]
    /\ call = NoCall
    /\ result = NoResult
    /\ files \in [ResPaths -> Contents \cup {Missing}]
    /\ resources = [n \in Names |-> <<>>]
    /\ given = NoGiven
    /\ made = NoMade

\* A resource file is written, rewritten or removed between two client calls.
WriteFile(pth, c) ==
    /\ files[pth] # c
    /\ files' = [files EXCEPT ![pth] = c]
    /\ ret' = NoRet
    /\ UNCHANGED <<disk, skills_cache, metadata_cache, loaded, after_reload, call, result,
                   resources, parsevars>>

\* client.get_resource(n, res)
GetResource(n, res) ==
    LET l == load_skill(skills_cache, Live, disk, n) IN
    IF l.exc # ""
    THEN /\ ret' = [Ret("get_resource", n, l.exc, NoSkill, <<>>) EXCEPT !.res = res]
         /\ UNCHANGED <<disk, skills_cache, metadata_cache, loaded, after_reload, call,
                        result, resvars, parsevars>>
    ELSE LET rs == ResourcesOf(l, resources[n], files)
             rd == read_resource(files, rs, res) IN
         /\ skills_cache' = l.cache
         /\ resources' = [resources EXCEPT ![n] = rs]
         /\ loaded' = Noted(loaded, n, l)
         /\ after_reload' = [after_reload EXCEPT ![n] = -1]
         /\ ret' = [Ret("get_resource", n, rd.exc, l.skill, <<>>) EXCEPT
                      !.res = res, !.bytes = rd.bytes, !.hit = l.hit]
         /\ UNCHANGED <<disk, metadata_cache, call, result, files, parsevars>>

NextRes ==
    \/ \E pth \in ResPaths, c \in Contents \cup {Missing} : WriteFile(pth, c)
    \/ \E n \in Names, res \in {"x", "y"} : GetResource(n, res)
    \/ ReloadSkills

SpecRes == InitRes /\ [][NextRes]_vars

(***************************************************************************)
(* SpecParse: the parser at work on one header name or on one scripts/     *)
(* directory, for every name of CandidateNames and every set of entries.   *)
(***************************************************************************)
InitParse ==
    /\ disk = ResDisk
    /\ skills_cache = [n \in Names |-> NoSkill]
    /\ metadata_cache = <<>>
    /\ ret = NoRet
    /\ loaded = [n \in Names |-> NotLoaded]
    /\ after_reload = [n \in Names |-> -1]
    /\ call = NoCall
    /\ result = NoResult
    /\ files = NoFiles
    /\ resources = [n \in Names |-> <<>>]
    /\ given \in {[NoGiven EXCEPT !.fn = "name", !.name = v] : v \in CandidateNames}
            \cup {[NoGiven EXCEPT !.fn = "scripts", !.scripts = S] :
                    S \in SUBSET (1..Len(ScriptEntries))}
    /\ made = NoMade

\* SkillMetadata(**post.metadata), for the name.
ValidateName ==
    /\ given.fn = "name" /\ ~made.done
    /\ made' = [NoMade EXCEPT !.done = TRUE, !.error = SkillMetadata_name(given.name)]
    /\ UNCHANGED <<disk, skills_cache, metadata_cache, ret, loaded, after_reload, call,
                   result, resvars, given>>

\* tools = self._discover_tools(skill_dir)
DiscoverTools ==
    /\ given.fn = "scripts" /\ ~made.done
    /\ made' = [NoMade EXCEPT !.done = TRUE, !.tools = discover_tools(given.scripts)]
    /\ UNCHANGED <<disk, skills_cache, metadata_cache, ret, loaded, after_reload, call,
                   result, resvars, given>>

NextParse ==
    \/ ValidateName
    \/ DiscoverTools

SpecParse == InitParse /\ [][NextParse]_vars

(***************************************************************************)
(* What the disk holds, said without the walk.  A bundle directory is a    *)
(* directory with a SKILL.md none of whose ancestors below the root has    *)
(* one; it is a valid bundle named n when that SKILL.md validates with     *)
(* name n.                                                                 *)
(***************************************************************************)
IsBundleDir(dk, r, d) ==
    /\ dk[<<r, d>>].kind # "none"
    /\ \A a \in Ancestors(d) : dk[<<r, a>>].kind = "none"

ValidNamed(dk, r, d, n) ==
    /\ IsBundleDir(dk, r, d)
    /\ dk[<<r, d>>].kind = "valid"
    /\ dk[<<r, d>>].name = n

\* Skill s is the parse of a valid bundle named n in the earliest root that
\* has one, as the disk is now.
FromDiskNow(s, n) ==
    /\ s.root \in Roots /\ s.dir \in DirNames
    /\ ValidNamed(disk, s.root, s.dir, n)
    /\ s.name = n
    /\ s.tags = disk[<<s.root, s.dir>>].tags
    /\ \A r \in Roots, d \in DirNames : r < s.root => ~ValidNamed(disk, r, d, n)

LoadReturned == ret.op = "load_skill" /\ ret.exc = ""

(***************************************************************************)
(* C1 (as claimed): with no reload_skills in between, a successful         *)
(* load_skill(n) returns the very instance the previous successful         *)
(* load_skill(n) returned, whatever other client calls ran in between.     *)
(***************************************************************************)
C1_AnyCallsBetween ==
    (LoadReturned /\ ret.prev.id # 0) => ret.skill.id = ret.prev.id

(***************************************************************************)
(* C1 (amended): with no reload_skills and no discover_skills in between,  *)
(* a successful load_skill(n) returns the very instance the previous       *)
(* successful load_skill(n) returned.                                      *)
(***************************************************************************)
C1_SameInstance ==
    (LoadReturned /\ ret.prev.id # 0 /\ ~ret.prev.disc) =>
        (ret.skill.id = ret.prev.id /\ ret.skill = skills_cache[ret.name])

\* A second load_skill of a name has returned the instance of the first.
C1_Witness ==
    /\ LoadReturned
    /\ ret.prev.id # 0 /\ ~ret.prev.disc
    /\ ret.skill.id = ret.prev.id

(***************************************************************************)
(* C2 (as claimed): the first load_skill(n) after reload_skills, for a     *)
(* name that is still discoverable, returns a Skill parsed from the bundle *)
(* as the disk holds it at that call, and not the instance the cache held  *)
(* before the reload.                                                      *)
(***************************************************************************)
C2_ParsedAtLoad ==
    (LoadReturned /\ ret.pending # -1 /\ find_skill_path(disk, ret.name) # NoPath) =>
        (FromDiskNow(ret.skill, ret.name) /\ ret.skill.id # ret.pending)

(***************************************************************************)
(* C2 (amended): the first load_skill(n) after reload_skills never returns *)
(* the instance the cache held before the reload, and, unless a            *)
(* discover_skills after the reload has already cached n, it returns a     *)
(* Skill parsed from the bundle as the disk holds it at that call.         *)
(***************************************************************************)
C2_Reparsed ==
    (LoadReturned /\ ret.pending # -1 /\ find_skill_path(disk, ret.name) # NoPath) =>
        /\ ret.skill.id # ret.pending
        /\ ~ret.hit => FromDiskNow(ret.skill, ret.name)

\* The cache held an instance of the name, reload_skills dropped it, and the
\* next load_skill parsed the bundle again.
C2_Witness ==
    /\ LoadReturned
    /\ ret.pending > 0
    /\ ~ret.hit
    /\ FromDiskNow(ret.skill, ret.name)

(***************************************************************************)
(* Bulk discovery returned: discover_skills or discover_metadata of the    *)
(* walker has answered.                                                    *)
(***************************************************************************)
BulkReturned == ret.op \in {"discover_skills", "discover_metadata"}

\* The roots that hold a valid bundle named n, and the earliest of them.
RootsWith(dk, n) == {r \in Roots : \E d \in DirNames : ValidNamed(dk, r, d, n)}

EarliestRoot(dk, n) == CHOOSE r \in RootsWith(dk, n) : \A q \in RootsWith(dk, n) : r <= q

\* The names of the valid bundles on the disk.
ValidNames(dk) == {n \in Names : RootsWith(dk, n) # {}}

\* Entry e of a bulk answer is what a valid bundle named e.name of the
\* earliest root holding one parses to.  A Skill carries its directory; a
\* metadata entry carries only the manifest's fields.
FromEarliestRoot(e) ==
    /\ e.name \in ValidNames(disk)
    /\ \E d \in DirNames :
          /\ ValidNamed(disk, EarliestRoot(disk, e.name), d, e.name)
          /\ e.tags = disk[<<EarliestRoot(disk, e.name), d>>].tags
          /\ ret.op = "discover_skills" => (e.root = EarliestRoot(disk, e.name) /\ e.dir = d)

(***************************************************************************)
(* C3: discover_skills and discover_metadata return at most one entry per  *)
(* skill name, and the entry of a name comes from the earliest root of     *)
(* skill_paths that holds a valid bundle of that name.                     *)
(***************************************************************************)
C3_FirstRootWins ==
    BulkReturned =>
        /\ \A i, j \in 1..Len(ret.out) : ret.out[i].name = ret.out[j].name => i = j
        /\ \A i \in 1..Len(ret.out) : FromEarliestRoot(ret.out[i])

\* Both roots hold a valid bundle of one name, with different tags, and the
\* answer has the entry of the first root.
C3_Witness ==
    /\ BulkReturned
    /\ \E n \in Names, d1, d2 \in DirNames :
          /\ ValidNamed(disk, 1, d1, n) /\ ValidNamed(disk, 2, d2, n)
          /\ \A d \in DirNames : ValidNamed(disk, 1, d, n) =>
                 disk[<<1, d>>].tags # disk[<<2, d2>>].tags
          /\ \E i \in 1..Len(ret.out) :
                 ret.out[i].name = n /\ ret.out[i].tags = disk[<<1, d1>>].tags

(***************************************************************************)
(* C4: within a root the walk stops at a directory that has a SKILL.md, so *)
(* discover_skills, discover_metadata and find_skill_path never return a   *)
(* directory that lies below another directory with a SKILL.md.            *)
(***************************************************************************)
C4_NoNestedBundles ==
    /\ \A r \in Roots : \A i \in 1..Len(find_skill_directories(disk, r)) :
          IsBundleDir(disk, r, find_skill_directories(disk, r)[i])
    /\ ret.op = "discover_skills" =>
          \A i \in 1..Len(ret.out) : IsBundleDir(disk, ret.out[i].root, ret.out[i].dir)
    /\ ret.op = "discover_metadata" =>
          \A i \in 1..Len(ret.out) : \E r \in Roots, d \in DirNames :
              /\ ValidNamed(disk, r, d, ret.out[i].name)
              /\ disk[<<r, d>>].tags = ret.out[i].tags
    /\ (ret.op = "find_skill_path" /\ ret.path # NoPath) =>
          IsBundleDir(disk, ret.path[1], ret.path[2])

\* A valid bundle lies below a directory with a SKILL.md, its name is found
\* nowhere else, and a discovery call has answered without it.
C4_Witness ==
    /\ \E n \in Names :
          /\ \E r \in Roots : disk[<<r, "p">>].kind # "none"
                               /\ disk[<<r, "p/q">>].kind = "valid"
                               /\ disk[<<r, "p/q">>].name = n
          /\ n \notin ValidNames(disk)
          /\ \/ BulkReturned /\ n \notin SeqNames(ret.out)
             \/ ret.op = "find_skill_path" /\ ret.name = n /\ ret.path = NoPath

(***************************************************************************)
(* C5: a bundle that fails parsing or validation is skipped by bulk        *)
(* discovery: no exception reaches the caller, and the answer has an entry *)
(* for every valid bundle name, wherever and however many the invalid      *)
(* bundles are.                                                            *)
(***************************************************************************)
C5_InvalidSkipped ==
    BulkReturned =>
        /\ ret.exc = ""
        /\ SeqNames(ret.out) = ValidNames(disk)

\* The walk meets two invalid bundles, the first of them before any valid
\* one, and the answer still has the valid bundle.
C5_Witness ==
    /\ BulkReturned
    /\ disk[<<1, "p">>].kind = "invalid"
    /\ disk[<<2, "p">>].kind = "invalid"
    /\ ret.out # <<>>
    /\ SeqNames(ret.out) = ValidNames(disk)

\* The messages a timed-out call may carry, one for each timeout in force.
TimeoutMessages == {TimeoutMessage(effective_timeout(o)) : o \in Overrides}

(***************************************************************************)
(* C6: when the child is still running at the timeout, execute() raises    *)
(* nothing and returns a result with success false, an error that names    *)
(* the timeout, and data, stdout, stderr and exit_code all absent.         *)
(***************************************************************************)
C6_TimeoutInBand ==
    call.outcome = "timeout" =>
        /\ result.kind = "returned"
        /\ result.success = FALSE
        /\ result.error.t = "str" /\ result.error.v \in TimeoutMessages
        /\ result.data = None /\ result.stdout = None
        /\ result.stderr = None /\ result.exit_code = None

\* A call with an override of its own has timed out and returned.
C6_Witness ==
    /\ call.phase = "done" /\ call.outcome = "timeout"
    /\ call.timeout.given /\ call.exec_timeout = call.timeout.value
    /\ result.kind = "returned" /\ ~result.success

\* The child exited (no timeout) and execute() has answered.
Exited == call.phase = "done" /\ call.outcome = "exit"

(***************************************************************************)
(* C7: when the child did not time out and its stdout is a JSON mapping    *)
(* with a status field, success is true exactly when status is "success",  *)
(* whatever the exit code; data is the mapping's data field and error its  *)
(* message field or else its error field.                                  *)
(***************************************************************************)
C7_StatusDecides ==
    (Exited /\ IsDict(json_loads(call.stdout)) /\ "status" \in json_loads(call.stdout).keys) =>
        /\ result.kind = "returned"
        /\ result.success = (json_loads(call.stdout).status = Str("success"))
        /\ result.data = dict_get(json_loads(call.stdout), "data")
        /\ result.error = Or(dict_get(json_loads(call.stdout), "message"),
                             dict_get(json_loads(call.stdout), "error"))

(***************************************************************************)
(* C8: when the child exited and its stdout is a JSON mapping without a    *)
(* status field, the exit code decides success: exit code 0 gives success  *)
(* true.                                                                   *)
(***************************************************************************)
C8_NoStatusExitCode ==
    (Exited /\ IsDict(json_loads(call.stdout)) /\ "status" \notin json_loads(call.stdout).keys) =>
        /\ result.kind = "returned"
        /\ result.success = (call.rc = 0)

(***************************************************************************)
(* C9: when the child did not time out and its stdout is JSON that is not  *)
(* a mapping, the decoded value is the result's data and success is        *)
(* (exit code = 0), for every exit code.                                   *)
(***************************************************************************)
C9_NonMappingIsData ==
    (Exited /\ json_loads(call.stdout).ok /\ ~IsDict(json_loads(call.stdout))) =>
        /\ result.kind = "returned"
        /\ result.data = json_loads(call.stdout).value
        /\ result.success = (call.rc = 0)

(***************************************************************************)
(* C10: when the child did not time out and its stdout is not empty and    *)
(* not JSON, the stdout text is the result's data, verbatim, and exit code *)
(* 0 gives success true.                                                   *)
(***************************************************************************)
C10_PlainTextIsData ==
    (Exited /\ call.stdout # "" /\ ~json_loads(call.stdout).ok) =>
        /\ result.kind = "returned"
        /\ result.data = Str(call.stdout)
        /\ call.rc = 0 => result.success

\* The error message standard error gives: the message (else error) field of
\* a JSON mapping, otherwise the raw text; none when standard error is empty.
StderrMessage(err) ==
    IF err = "" THEN None
    ELSE IF IsDict(json_loads(err))
         THEN Or(dict_get(json_loads(err), "message"), dict_get(json_loads(err), "error"))
         ELSE Str(err)

\* The error message standard output gives: the message (else error) field of
\* a JSON mapping, otherwise none.
StdoutMessage(out) ==
    IF IsDict(json_loads(out))
    THEN Or(dict_get(json_loads(out), "message"), dict_get(json_loads(out), "error"))
    ELSE None

(***************************************************************************)
(* C11: when the child exits non-zero with no usable stdout, success is    *)
(* false and the error is taken from stderr (the message, else error,      *)
(* field of a JSON mapping, otherwise the raw text); in every other case   *)
(* stderr is not used for the error.                                       *)
(***************************************************************************)
C11_StderrFallback ==
    (Exited /\ result.kind = "returned") =>
        IF call.rc # 0 /\ call.stdout = ""
        THEN result.success = FALSE /\ result.error = StderrMessage(call.stderr)
        ELSE result.error = StdoutMessage(call.stdout)

\* The child's run was an ordinary tool failure: it exited non-zero, or it
\* printed a mapping whose status is not "success".
OrdinaryFailure ==
    /\ call.outcome = "exit"
    /\ \/ call.rc # 0
       \/ /\ IsDict(json_loads(call.stdout))
          /\ "status" \in json_loads(call.stdout).keys
          /\ json_loads(call.stdout).status # Str("success")

(***************************************************************************)
(* C12: once the child has been spawned, a non-zero exit, a timeout and an *)
(* in-band error payload are each reported as a returned result with       *)
(* success false, never as an exception; ToolExecutionError is raised only *)
(* when managing the process failed.                                       *)
(***************************************************************************)
C12_FailuresInBand ==
    /\ (OrdinaryFailure \/ call.outcome = "timeout") =>
          (result.kind = "returned" /\ result.success = FALSE)
    /\ (call.outcome \in {"exit", "timeout"}) => result.kind # "raised"

(***************************************************************************)
(* C13: execute() raises ToolNotFoundError when the skill has no tool of   *)
(* that name and ToolExecutionError when the tool's script file is         *)
(* missing; in both cases no child is started and nothing is returned, and *)
(* the tool is looked up before the script.                                *)
(***************************************************************************)
C13_ChecksBeforeSpawn ==
    /\ (call.phase # "idle" /\ ~call.has_tool) =>
          /\ call.phase = "done" /\ call.outcome \notin {"exit", "timeout", "oserror"}
          /\ result.kind = "raised" /\ result.exc = "ToolNotFoundError"
    /\ (call.phase # "idle" /\ call.has_tool /\ ~call.script_exists) =>
          /\ call.phase = "done" /\ call.outcome \notin {"exit", "timeout", "oserror"}
          /\ result.kind = "raised" /\ result.exc = "ToolExecutionError"

\* A call named a tool the skill does not have, whose script would be missing
\* too, and ToolNotFoundError came out.
C13_Witness ==
    /\ call.phase = "done" /\ ~call.has_tool /\ ~call.script_exists
    /\ result.kind = "raised" /\ result.exc = "ToolNotFoundError"

\* get_resource has answered for a skill that could be loaded.
ResourceAnswered == ret.op = "get_resource" /\ ret.exc # "SkillNotFoundError"

\* The loaded Skill declares a resource of the name asked for, and the paths
\* it declares it at.
DeclaredAt ==
    {resources[ret.name][i].path :
        i \in {j \in 1..Len(resources[ret.name]) : resources[ret.name][j].name = ret.res}}

(***************************************************************************)
(* C14: get_resource raises ResourceNotFoundError when the loaded Skill    *)
(* declares no resource of that name, and when it declares one whose file  *)
(* is no longer on disk; otherwise it returns the content of the file.     *)
(***************************************************************************)
C14_ResourceNotFound ==
    ResourceAnswered =>
        IF DeclaredAt = {} THEN ret.exc = "ResourceNotFoundError"
        ELSE IF \A pth \in DeclaredAt : files[pth] = Missing
             THEN ret.exc = "ResourceNotFoundError"
             ELSE ret.exc \in {"", "ResourceNotFoundError"}
                  /\ (ret.exc = "" => \E pth \in DeclaredAt : ret.bytes = files[pth])
                  /\ ((\A pth \in DeclaredAt : files[pth] # Missing) => ret.exc = "")

\* The cached Skill declares the resource, its file has since been removed,
\* and get_resource raised ResourceNotFoundError.
C14_Witness ==
    /\ ResourceAnswered /\ ret.hit
    /\ DeclaredAt # {}
    /\ \A pth \in DeclaredAt : files[pth] = Missing
    /\ ret.exc = "ResourceNotFoundError"

\* search_skills has answered.
SearchReturned == ret.op = "search_skills"

(***************************************************************************)
(* C15: whatever calls and changes of the disk came before, every Skill    *)
(* search_skills(tags=T) returns for a non-empty T has a tag in T.         *)
(***************************************************************************)
C15_ResultsMatchTags ==
    (SearchReturned /\ ret.qtags # {}) =>
        \A i \in 1..Len(ret.out) : ret.out[i].tags \cap ret.qtags # {}

\* The entries of the metadata cache that pass the query's tag filter.
Passing == {i \in 1..Len(metadata_cache) :
               ret.qtags = {} \/ ret.qtags \cap metadata_cache[i].tags # {}}

\* The place of name n in the metadata cache (0: none).
PlaceOf(n) ==
    IF n \in SeqNames(metadata_cache)
    THEN CHOOSE i \in 1..Len(metadata_cache) : metadata_cache[i].name = n
    ELSE 0

(***************************************************************************)
(* C16: search_skills raises nothing when a load fails: a passing entry    *)
(* whose bundle can no longer be loaded is left out, and the other passing *)
(* entries are returned, in the order of the metadata cache.               *)
(***************************************************************************)
C16_LoadFailuresSkipped ==
    SearchReturned =>
        /\ ret.exc = ""
        /\ \A i \in Passing :
              metadata_cache[i].name \in ValidNames(disk) =>
                  metadata_cache[i].name \in SeqNames(ret.out)
        /\ \A k \in 1..Len(ret.out) :
              /\ PlaceOf(ret.out[k].name) \in Passing
              /\ ret.out[k] = skills_cache[ret.out[k].name]
        /\ \A k, l \in 1..Len(ret.out) :
              k < l => PlaceOf(ret.out[k].name) < PlaceOf(ret.out[l].name)

\* The first passing entry's bundle is gone and was not cached, and the
\* search returned the entry after it.
C16_Witness ==
    /\ SearchReturned /\ ret.exc = ""
    /\ Len(metadata_cache) = 2 /\ Passing = {1, 2}
    /\ metadata_cache[1].name \notin ValidNames(disk)
    /\ skills_cache[metadata_cache[1].name] = NoSkill
    /\ SeqNames(ret.out) = {metadata_cache[2].name}

(***************************************************************************)
(* C17: after client.discover_metadata() or client.discover_skills() the   *)
(* metadata cache is exactly the metadata of what the walker just found;   *)
(* discover_skills also makes the skill-cache entry of every discovered    *)
(* name the Skill it just parsed.                                          *)
(***************************************************************************)
C17_DiscoverReplacesCaches ==
    /\ ret.op = "discover_metadata" =>
          /\ metadata_cache = ret.out
          /\ metadata_cache = discovery_discover_metadata(disk).out
    /\ ret.op = "discover_skills" =>
          /\ metadata_cache = [i \in 1..Len(ret.out) |-> MetadataOf(ret.out[i])]
          /\ \A i \in 1..Len(ret.out) : skills_cache[ret.out[i].name] = ret.out[i]

(***************************************************************************)
(* C18: right after reload_skills() the skill cache is empty and the       *)
(* metadata cache is what a new discover_metadata scan of the disk gives;  *)
(* reload_skills loads no Skill.                                           *)
(***************************************************************************)
C18_ReloadClears ==
    ret.op = "reload_skills" =>
        /\ \A n \in Names : skills_cache[n] = NoSkill
        /\ metadata_cache = discovery_discover_metadata(disk).out
        /\ SeqNames(metadata_cache) = ValidNames(disk)

\* reload_skills emptied a skill cache that held a Skill and changed the
\* metadata cache.
C18_Witness ==
    /\ ret.op = "reload_skills" /\ ret.hit
    /\ ret.out # metadata_cache
    /\ \A n \in Names : skills_cache[n] = NoSkill

(***************************************************************************)
(* C19: load_skill(n), for a name that is not in the skill cache and that  *)
(* no bundle of any root parses to, raises SkillNotFoundError carrying n   *)
(* and the search roots, and changes neither cache.                        *)
(***************************************************************************)
C19_NotFoundRaises ==
    [][(ret'.op = "load_skill" /\ skills_cache[ret'.name] = NoSkill
            /\ ret'.name \notin ValidNames(disk) /\ disk' = disk) =>
         /\ ret'.exc = "SkillNotFoundError"
         /\ ret'.args = <<ret'.name, skill_paths>>
         /\ skills_cache' = skills_cache
         /\ metadata_cache' = metadata_cache]_vars

\* load_skill raised SkillNotFoundError for a name the metadata cache still
\* lists.
C19_Witness ==
    /\ ret.op = "load_skill" /\ ret.exc = "SkillNotFoundError"
    /\ ret.name \in SeqNames(metadata_cache)
    /\ ret.name \notin ValidNames(disk)

(***************************************************************************)
(* C20: get_metadata(n) answers from the skill cache when n is there;      *)
(* otherwise from the metadata cache when it lists n, loading nothing and  *)
(* changing neither cache; only otherwise it does load_skill(n), which     *)
(* caches n or raises SkillNotFoundError.                                  *)
(***************************************************************************)
C20_MetadataOrder ==
    [][(ret'.op = "get_metadata" /\ disk' = disk) =>
         IF skills_cache[ret'.name] # NoSkill
         THEN /\ ret'.exc = "" /\ ret'.meta = MetadataOf(skills_cache[ret'.name])
              /\ skills_cache' = skills_cache /\ metadata_cache' = metadata_cache
         ELSE IF ret'.name \in SeqNames(metadata_cache)
         THEN /\ ret'.exc = ""
              /\ \E i \in 1..Len(metadata_cache) : ret'.meta = metadata_cache[i]
              /\ ret'.meta.name = ret'.name
              /\ skills_cache' = skills_cache /\ metadata_cache' = metadata_cache
         ELSE /\ metadata_cache' = metadata_cache
              /\ IF ret'.name \in ValidNames(disk)
                 THEN /\ ret'.exc = ""
                      /\ skills_cache'[ret'.name] # NoSkill
                      /\ ret'.meta = MetadataOf(skills_cache'[ret'.name])
                 ELSE /\ ret'.exc = "SkillNotFoundError"
                      /\ skills_cache' = skills_cache]_vars

\* get_metadata answered from the skill cache while the metadata cache lists
\* the name with other tags.
C20_Witness ==
    /\ ret.op = "get_metadata" /\ ret.exc = ""
    /\ skills_cache[ret.name] # NoSkill
    /\ ret.meta = MetadataOf(skills_cache[ret.name])
    /\ ret.name \in SeqNames(metadata_cache)
    /\ metadata_cache[PlaceOf(ret.name)].tags # ret.meta.tags

\* The timeout the claim makes effective: the override when one is given.
ClaimedTimeout == IF call.timeout.given THEN call.timeout.value ELSE DefaultTimeout

(***************************************************************************)
(* C21: the timeout in force is the override whenever one is given, 0      *)
(* included, and the configured default only when none is given; the       *)
(* timeout error message reports the timeout in force.                     *)
(***************************************************************************)
C21_OverrideWins ==
    /\ call.phase = "running" => call.exec_timeout = ClaimedTimeout
    /\ call.outcome = "timeout" => result.error = Str(TimeoutMessage(ClaimedTimeout))

(***************************************************************************)
(* C22: every execute() call on an existing tool comes to an end; a child  *)
(* still running when the timeout elapses is killed, and no child started  *)
(* by the call is running once the call has returned or raised.            *)
(***************************************************************************)
C22_CallEndsChild ==
    /\ [](call.phase = "done" => call.child # "running")
    /\ [](call.outcome = "timeout" => call.child = "killed")
    /\ (call.phase = "running") ~> (call.phase = "done")

\* A call timed out, its child was killed and the call returned.
C22_Witness ==
    /\ call.phase = "done" /\ call.outcome = "timeout"
    /\ call.child = "killed" /\ result.kind = "returned"

(***************************************************************************)
(* C30: a result with success true has exit code 0 and no error message,   *)
(* whatever the child's exit code, stdout and stderr.                      *)
(***************************************************************************)
C30_SuccessIsClean ==
    (result.kind = "returned" /\ result.success) =>
        /\ call.rc = 0 /\ result.exit_code = Val("int", "0")
        /\ result.error = None

(***************************************************************************)
(* C23: a name in the skill cache stays in it, and load_skill of it keeps  *)
(* answering from the cache, until reload_skills() is called: no other     *)
(* call removes an entry, discover_skills and discover_metadata after the  *)
(* bundle was deleted included.                                            *)
(***************************************************************************)
C23_EntriesStay ==
    [][/\ \A n \in Names :
            (skills_cache[n] # NoSkill /\ ret'.op # "reload_skills") =>
                skills_cache'[n] # NoSkill
       /\ (ret'.op = "load_skill" /\ skills_cache[ret'.name] # NoSkill) =>
            /\ ret'.exc = "" /\ ret'.hit
            /\ ret'.skill = skills_cache[ret'.name]
            /\ skills_cache' = skills_cache]_vars

\* discover_skills ran while the cache held a name that no bundle of the
\* disk has any more, and the name is still cached.
C23_Witness ==
    /\ ret.op = "discover_skills"
    /\ \E n \in Names : skills_cache[n] # NoSkill /\ n \notin ValidNames(disk)

(***************************************************************************)
(* C28: every entry of the skill cache is kept under the name of its       *)
(* Skill: the Skill cached for k has name k, after any sequence of calls.  *)
(***************************************************************************)
C28_KeyIsName ==
    \A k \in Names : skills_cache[k] # NoSkill => skills_cache[k].name = k

\* load_skill has just cached a Skill found after a bundle of the other
\* name, which an earlier root holds.
C28_Witness ==
    /\ LoadReturned /\ ~ret.hit
    /\ skills_cache[ret.name] = ret.skill
    /\ \E r \in Roots, d \in DirNames, n \in Names \ {ret.name} :
            r < ret.skill.root /\ ValidNamed(disk, r, d, n)

\* The only bundle directories whose header declares n do not validate.
OnlyInvalidDeclares(dk, n) ==
    /\ \E r \in Roots, d \in DirNames : IsBundleDir(dk, r, d) /\ dk[<<r, d>>].name = n
    /\ n \notin ValidNames(dk)

NameValidated == given.fn = "name" /\ made.done
ToolsDiscovered == given.fn = "scripts" /\ made.done

(***************************************************************************)
(* C24: validation fails for every name that has an uppercase letter or a  *)
(* character outside [a-z0-9-], for the empty name and for every name      *)
(* longer than 64 characters.                                              *)
(***************************************************************************)
C24_BadNamesRejected ==
    (/\ NameValidated
     /\ \/ \E i \in 1..Len(given.name) : given.name[i] \in UpperChars
        \/ \E i \in 1..Len(given.name) : given.name[i] \notin PatternChars
        \/ Len(given.name) = 0
        \/ Len(given.name) > 64) => made.error # ""

\* A name of lowercase letters, one of them outside a-z, was refused: the
\* validator alone would let it pass.
C24_Witness ==
    /\ NameValidated /\ made.error # ""
    /\ \A i \in 1..Len(given.name) : given.name[i] \in LowerChars
    /\ \E i \in 1..Len(given.name) : given.name[i] \notin PatternChars

(***************************************************************************)
(* C25: the tools of a parsed Skill have pairwise distinct names, for      *)
(* every set of files in scripts/, so that get_tool(name) stands for       *)
(* exactly one script.                                                     *)
(***************************************************************************)
C25_ToolNamesDistinct ==
    ToolsDiscovered =>
        /\ \A i, j \in 1..Len(made.tools) :
                i # j => made.tools[i].name # made.tools[j].name
        /\ \A i \in 1..Len(made.tools) :
                skill_get_tool(made.tools, made.tools[i].name) = made.tools[i]

(***************************************************************************)
(* C26: the resources of a parsed Skill have pairwise distinct names, for  *)
(* every set of files in references/ and assets/, so that                  *)
(* get_resource(name) stands for exactly one file.                         *)
(***************************************************************************)
C26_ResourceNamesDistinct ==
    \A n \in Names :
        /\ \A i, j \in 1..Len(resources[n]) :
                i # j => resources[n][i].name # resources[n][j].name
        /\ \A i \in 1..Len(resources[n]) :
                skill_get_resource(resources[n], resources[n][i].name) = resources[n][i]

(***************************************************************************)
(* C27: validation accepts every name of 1 to 64 characters that matches   *)
(* ^[a-z0-9-]+$, names of digits and hyphens only included.                *)
(***************************************************************************)
C27_PatternNamesAccepted ==
    (/\ NameValidated
     /\ pattern_match(given.name)
     /\ Len(given.name) >= 1 /\ Len(given.name) <= 64) => made.error = ""

====
